---------------------------- MODULE Spec2Model ----------------------------
(***************************************************************************)
(* Model of the package provenance verification pipeline of the unified    *)
(* package manager CLI (src/cli.py, src/utils/virustotal.py).              *)
(*                                                                         *)
(* One run of the program is modelled: the constructor has probed the      *)
(* managers, main() dispatches one of install / update / upgrade, the      *)
(* orchestrator selects a manager, _virustotal_scan resolves, hashes,      *)
(* queries the reputation service, decides and possibly prompts, and the   *)
(* orchestrator then invokes (or does not invoke) the manager's command.   *)
(*                                                                         *)
(* Strings that the code inspects (operator responses, package names) are  *)
(* sequences of one-character strings; everything the environment answers  *)
(* (exit codes, HTTP replies, JSON shapes, stdin) is chosen by \E at the   *)
(* step that reads it.                                                     *)
(***************************************************************************)
EXTENDS Integers, Sequences, FiniteSets, TLC

VARIABLES
    available_managers, \* keys of UnifiedCLI.available_managers, in dict order
    pc,                 \* position of the single thread of control
    command,            \* args.command
    package_name,       \* args.package
    manager_arg,        \* args.manager ("None" when -m is absent)
    candidates,         \* the list the interactive selection indexes
    manager_choice,     \* the line typed at the selection (<< "None" >> before)
    packages,           \* update_package: the names each manager's listing held
    manager_name,       \* the manager the operation settled on ("None" before)
    spinner,            \* the progress thread: not_started / running / joined
    file_hash,          \* result of download_package_and_get_hash
    resp,               \* the HTTP reply requests.get returned (virustotal.py:32)
    result,             \* result of scan_file_hash_with_virustotal
    stats,              \* the counts _virustotal_scan extracted (lines 152-155)
    response,           \* the line the operator typed at the last y/n prompt
    choice,             \* that line stripped and lower-cased
    answered,           \* how the last read of stdin ended: none / line / eof
    prompts,            \* number of y/n prompts issued by _virustotal_scan
    scans,              \* number of calls of _virustotal_scan
    scan_ret,           \* value returned by _virustotal_scan: unset/True/False
    ret_line,           \* the line of cli.py whose return produced scan_ret
    raised,             \* the exception caught at cli.py:194 ("None" if none)
    out,                \* the [Security] messages printed, in order
    calls,              \* the manager commands invoked, in order
    tmpdirs,            \* number of scratch directories tempfile.mkdtemp made
    scratch,            \* the scratch directory: none / empty / file / removed
    rc1,                \* returncode of pip3 download (virustotal.py:63)
    rc2,                \* returncode of python -m pip download (line 66)
    meta,               \* shape of what _get_npm_metadata returned (line 173)
    tarball_url,        \* where tarball_url came from ("None" while unset)
    status_code,        \* how the tarball download's requests.get answered
    registry,           \* what _get_npm_registry returned (virustotal.py:172)
    version,            \* meta.get('version') when it is a string (line 187)
    url,                \* the URL the npm branch built last (lines 104, 128)
    cwd_archive,        \* an archive npm pack made lies in the working directory
    queries             \* number of requests sent to the reputation service

vars == << available_managers, pc, command, package_name, manager_arg,
           candidates, manager_choice, packages, manager_name, spinner, file_hash, resp, result, stats,
           response, choice, answered, prompts, scans, scan_ret, ret_line, raised,
           out, calls, tmpdirs, scratch, rc1, rc2, meta, tarball_url, status_code,
           registry, version, url, cwd_archive, queries >>

-----------------------------------------------------------------------------
(* Bounds *)

\* largest per-engine count the reputation service reports in the model
MaxCount == 2

-----------------------------------------------------------------------------
(* Strings *)

\* str.lower() on one character
LowerChar(c) ==
    CASE c = "Y" -> "y"
      [] c = "N" -> "n"
      [] c = "L" -> "l"
      [] c = "P" -> "p"
      [] OTHER -> c

\* str.lower()
Lower(s) == [i \in 1..Len(s) |-> LowerChar(s[i])]

\* the characters str.strip() and int() treat as whitespace
IsSpace(c) == c \in {" ", "\t"}

RECURSIVE LStrip(_)
LStrip(s) ==
    IF s = << >> THEN s
    ELSE IF IsSpace(Head(s)) THEN LStrip(Tail(s)) ELSE s

RECURSIVE RStrip(_)
RStrip(s) ==
    IF s = << >> THEN s
    ELSE IF IsSpace(s[Len(s)]) THEN RStrip(SubSeq(s, 1, Len(s) - 1)) ELSE s

\* str.strip()
Strip(s) == RStrip(LStrip(s))


\* value of one decimal digit, -1 for any other character
DigitVal(c) ==
    CASE c = "0" -> 0
      [] c = "1" -> 1
      [] c = "2" -> 2
      [] c = "3" -> 3
      [] c = "4" -> 4
      [] OTHER -> -1

RECURSIVE DigitsValue(_, _)
DigitsValue(s, acc) ==
    IF s = << >> THEN acc
    ELSE DigitsValue(Tail(s), 10 * acc + DigitVal(Head(s)))

AllDigits(s) == s # << >> /\ \A i \in 1..Len(s) : DigitVal(s[i]) >= 0

\* int(text): surrounding whitespace is dropped, one sign is allowed, at least
\* one digit is needed; anything else raises ValueError (ok = FALSE)
ParseInt(text) ==
    LET t == Strip(text)
        signed == t # << >> /\ Head(t) \in {"-", "+"}
        digits == IF signed THEN Tail(t) ELSE t
    IN  IF AllDigits(digits)
        THEN [ok |-> TRUE,
              val |-> IF signed /\ Head(t) = "-"
                      THEN 0 - DigitsValue(digits, 0)
                      ELSE DigitsValue(digits, 0)]
        ELSE [ok |-> FALSE, val |-> 0]

\* lst[idx] of a Python list: negative indices count from the end, and an index
\* outside -len..len-1 raises IndexError (ok = FALSE)
PyIndex(lst, idx) ==
    IF idx >= 0 /\ idx < Len(lst) THEN [ok |-> TRUE, val |-> lst[idx + 1]]
    ELSE IF idx < 0 /\ idx >= 0 - Len(lst)
         THEN [ok |-> TRUE, val |-> lst[Len(lst) + idx + 1]]
         ELSE [ok |-> FALSE, val |-> "None"]

-----------------------------------------------------------------------------
(* The environment: what the command line, stdin, the ecosystem tools and  *)
(* the reputation service can present to the program.                      *)

\* the managers UnifiedCLI.__init__ registers, in insertion order
Managers == << "npm", "pip3" >>

\* the order-preserving sub-lists of Managers that is_available() can leave
AvailableLists == { << >>, << "npm" >>, << "pip3" >>, << "npm", "pip3" >> }

Commands == { "install", "update", "upgrade" }

\* -m accepts only these (argparse choices); "None" is the absent option
ManagerArgs == { "None", "npm", "pip3" }

\* package names given on the command line
PackageNames ==
    { << "l", "p" >>, << "@", "s", "/", "n" >>, << "@", "s" >>, << "l", "?" >> }

\* names an installed-package listing can carry
InstalledNames == { << "L", "p" >>, << "@", "s", "/", "n" >> }

\* lines the operator can type at a prompt
InputLines ==
    { << "y" >>, << " ", "Y", " " >>, << "n" >>, << >>, << "y", "e", "s" >>,
      << "1" >>, << " ", "2" >>, << "3" >>, << "0" >>, << "-", "1" >>,
      << "x" >> }

\* one field of last_analysis_stats: absent, a value int() rejects, or a count
FieldValues ==
    { [k |-> "absent", v |-> 0], [k |-> "bad", v |-> 0] }
    \cup { [k |-> "int", v |-> n] : n \in 0..MaxCount }

AbsentField == [k |-> "absent", v |-> 0]

\* HTTP status codes other than 200 the reputation service answers with
ErrorStatuses == { 404, 429, 500 }

\* a reply whose body is not looked at structurally
PlainReply(status, body) ==
    [status |-> status, body |-> body, data |-> "absent", error |-> "absent",
     attributes |-> "missing", last_analysis_stats |-> "missing",
     malicious |-> AbsentField, suspicious |-> AbsentField,
     harmless |-> AbsentField, undetected |-> AbsentField]

\* replies of GET /api/v3/files/{hash}; body no_reply stands for requests.get
\* raising (no connection, DNS failure), otherwise:
\*   body                 unparsable (json() raises), nondict (a JSON list or
\*                        scalar) or dict
\*   data                 absent, falsy (null, {}), nondict (truthy, no dict), dict
\*   error                absent, falsy, truthy
\*   attributes, stats    missing (absent or falsy), bad (truthy, no dict), dict
Replies ==
    { PlainReply(0, "no_reply") }
    \cup { PlainReply(st, "text") : st \in ErrorStatuses }
    \cup { PlainReply(200, b) : b \in { "unparsable", "nondict" } }
    \cup { [PlainReply(200, "dict") EXCEPT !.data = d, !.error = e] :
             d \in { "absent", "falsy", "nondict" },
             e \in { "absent", "falsy", "truthy" } }
    \cup { [PlainReply(200, "dict") EXCEPT !.data = "dict", !.attributes = a] :
             a \in { "missing", "bad" } }
    \cup { [PlainReply(200, "dict") EXCEPT !.data = "dict",
              !.attributes = "dict", !.last_analysis_stats = s] :
             s \in { "missing", "bad" } }
    \cup { [PlainReply(200, "dict") EXCEPT !.data = "dict",
              !.attributes = "dict", !.last_analysis_stats = "dict",
              !.malicious = m, !.suspicious = s, !.harmless = h,
              !.undetected = u] :
             m \in FieldValues, s \in FieldValues, h \in FieldValues,
             u \in FieldValues }


\* how a subprocess.run of pip ends: exit status zero or not, or the
\* executable cannot be started (FileNotFoundError)
ExitCodes == { "zero", "nonzero", "launch_error" }

\* what npm view --json yields: none (a failure of any kind, or output that
\* is not a JSON object), or an object that embeds dist.tarball, that holds
\* only a version string, or that holds neither
MetaShapes == { "none", "tarball", "version", "neither" }

\* what the registry latest endpoint yields: a tarball URL or nothing
LatestAnswers == { "url", "none" }

\* how the GET of the tarball ends: status 200, another status, or an
\* exception (connection failure, timeout)
DownloadAnswers == { "200", "404", "exception" }

\* how npm pack ends: failed (non-zero exit, no output, tool missing: no
\* archive), no_file (an archive was made but the last output line does not
\* name it), move_failed (shutil.move raises), or moved (the archive was
\* moved into the scratch directory)
PackAnswers == { "failed", "no_file", "move_failed", "moved" }

\* calculate_file_hash reads the file or raises an I/O error
HashAnswers == { "ok", "ioerror" }

-----------------------------------------------------------------------------
(* src/utils/virustotal.py *)

\* outcomes of a resolver step: a digest, None, or an exception leaving it
Hashed == [kind |-> "hash", exc |-> "None"]
NoArtifact == [kind |-> "none", exc |-> "None"]
Raises(exc) == [kind |-> "raise", exc |-> exc]

\* package_name.startswith('@')
IsScoped(name) == name # << >> /\ Head(name) = "@"

HasSlash(name) == \E i \in 1..Len(name) : name[i] = "/"

\* _construct_npm_tarball_url: "scope, name = package_name.split('/', 1)"
\* raises ValueError when a name that starts with '@' holds no '/'
ConstructRaises(name) == IsScoped(name) /\ ~HasSlash(name)

\* what npm config get registry prints (stripped), or that the call failed
RegistryAnswers ==
    { "failed", "", "undefined", "https://r.example/npm",
      "https://r.example/npm/" }

\* _get_npm_registry: the configured registry with exactly one trailing '/',
\* or the default when the call fails or prints nothing or 'undefined'
_get_npm_registry(answer) ==
    IF answer \in { "failed", "", "undefined" }
    THEN "https://registry.npmjs.org/"
    ELSE "https://r.example/npm/"

\* version strings npm view reports
Versions == { "1.0.0", "2.0.0-rc.1" }

\* urllib.parse.quote never escapes letters, digits and "_.-~"
AlwaysSafe ==
    { "l", "p", "s", "n", "L", "0", "1", "2", "3", "4", "5", "6", "7", "8",
      "9", "A", "B", "C", "D", "E", "F", "_", ".", "-", "~" }

\* "%XX" of the one byte of an ASCII character
PercentCode(c) ==
    CASE c = "@" -> << "%", "4", "0" >>
      [] c = "/" -> << "%", "2", "F" >>
      [] c = "?" -> << "%", "3", "F" >>
      [] c = "#" -> << "%", "2", "3" >>
      [] c = " " -> << "%", "2", "0" >>
      [] c = "%" -> << "%", "2", "5" >>

\* quote(name) with the default safe='/': the '@' of a scope is escaped
RECURSIVE QuoteEscapingAt(_, _)
QuoteEscapingAt(string, safe) ==
    IF string = << >> THEN << >>
    ELSE LET c == Head(string)
         IN  (IF c \in AlwaysSafe \cup { "/" } THEN << c >> ELSE PercentCode(c))
             \o QuoteEscapingAt(Tail(string), safe)

\* urllib.parse.quote(string, safe=...): every character outside the always
\* safe ones and the given safe ones becomes its percent code
RECURSIVE quote(_, _)
quote(string, safe) ==
    IF string = << >> THEN << >>
    ELSE LET c == Head(string)
         IN  (IF c \in AlwaysSafe \cup safe THEN << c >> ELSE PercentCode(c))
             \o quote(Tail(string), safe)

\* virustotal.py:103-104: f"{registry}{encoded}/latest" with
\* encoded = quote(package_name, safe='@/')
LatestUrl(name, reg) ==
    << reg >> \o quote(name, { "@", "/" }) \o << "/latest" >>

\* package_name.split('/', 1): the parts before and after the first '/'
FirstSlash(name) ==
    CHOOSE i \in 1..Len(name) :
        name[i] = "/" /\ \A j \in 1..(i - 1) : name[j] # "/"

\* the npm layout that keeps the '@' of the scope in the path
TarballUrlKeepsAt(name, ver, reg) ==
    << reg >> \o name \o << "/-/" >>
        \o (IF IsScoped(name)
            THEN SubSeq(name, FirstSlash(name) + 1, Len(name)) ELSE name)
        \o << "-", ver, ".tgz" >>

\* _construct_npm_tarball_url (lines 120-128), for a name it does not raise
\* on: registry + scope + '/' + name + '/-/' + name + '-' + version + '.tgz'
\* with the '@' of the scope removed, or the flat form
TarballUrl(name, ver, reg) ==
    IF IsScoped(name)
    THEN LET i == FirstSlash(name)
             scope == SubSeq(name, 2, i - 1)
             rest == SubSeq(name, i + 1, Len(name))
         IN  << reg >> \o scope \o << "/" >> \o rest \o << "/-/" >> \o rest
                 \o << "-", ver, ".tgz" >>
    ELSE << reg >> \o name \o << "/-/" >> \o name \o << "-", ver, ".tgz" >>

\* the dict scan_file_hash_with_virustotal returns; raised is TRUE when
\* requests.get or resp.json() raises instead
NoResult ==
    [raised |-> FALSE, isdict |-> FALSE, data |-> "absent", error |-> "absent",
     code |-> 0, attributes |-> "missing", last_analysis_stats |-> "missing",
     malicious |-> AbsentField, suspicious |-> AbsentField,
     harmless |-> AbsentField, undetected |-> AbsentField]

\* scan_file_hash_with_virustotal that reads a 404 as "no record" and parses
\* its body like a 200 reply
ScanReads404AsBody(reply) ==
    IF reply.body = "no_reply" THEN [NoResult EXCEPT !.raised = TRUE]
    ELSE IF reply.status \in { 200, 404 } THEN NoResult
    ELSE [NoResult EXCEPT !.isdict = TRUE,
            !.error = IF reply.status # 0 THEN "truthy" ELSE "falsy",
            !.code = reply.status]

scan_file_hash_with_virustotal(reply) ==
    IF reply.body = "no_reply" THEN [NoResult EXCEPT !.raised = TRUE]
    ELSE IF reply.status = 200
    THEN IF reply.body = "unparsable" THEN [NoResult EXCEPT !.raised = TRUE]
         ELSE IF reply.body = "nondict" THEN NoResult
         ELSE [raised |-> FALSE, isdict |-> TRUE, data |-> reply.data,
               error |-> reply.error, code |-> 0,
               attributes |-> reply.attributes,
               last_analysis_stats |-> reply.last_analysis_stats,
               malicious |-> reply.malicious, suspicious |-> reply.suspicious,
               harmless |-> reply.harmless, undetected |-> reply.undetected]
    ELSE [NoResult EXCEPT !.isdict = TRUE,
            !.error = IF reply.status # 0 THEN "truthy" ELSE "falsy",
            !.code = reply.status]


-----------------------------------------------------------------------------
(* src/cli.py: _virustotal_scan *)

\* int(stats.get(name, 0)): an absent key counts 0
CountOf(f) == IF f.k = "int" THEN f.v ELSE 0

NoStats ==
    [malicious |-> 0, suspicious |-> 0, harmless |-> 0, undetected |-> 0]

\* line 149: result is a dict whose 'data' is a non-empty dict
HasData(r) == r.isdict /\ r.data = "dict"

\* lines 150-155 raise when attributes or last_analysis_stats is a truthy
\* non-dict (no .get), or when int() rejects a count
ExtractRaises(r) ==
    \/ r.attributes = "bad"
    \/ r.attributes = "dict" /\ r.last_analysis_stats = "bad"
    \/ /\ r.attributes = "dict"
       /\ r.last_analysis_stats = "dict"
       /\ \E f \in { r.malicious, r.undetected, r.suspicious, r.harmless } :
              f.k = "bad"

\* lines 150-155: the four counts; a missing attributes or stats object
\* reads as the empty dict
ExtractStats(r) ==
    IF r.attributes = "dict" /\ r.last_analysis_stats = "dict"
    THEN [malicious |-> CountOf(r.malicious),
          suspicious |-> CountOf(r.suspicious),
          harmless |-> CountOf(r.harmless),
          undetected |-> CountOf(r.undetected)]
    ELSE NoStats

\* Classify with the suspicious test ahead of the malicious test
ClassifySuspiciousFirst(r) ==
    IF HasData(r)
    THEN IF ExtractRaises(r) THEN "raise"
         ELSE IF ExtractStats(r).suspicious > 0 THEN "suspicious"
         ELSE IF ExtractStats(r).malicious > 0 THEN "malicious"
         ELSE "clean"
    ELSE IF r.isdict /\ r.error = "truthy" THEN "error"
    ELSE "no_data"

\* Classify with "malicious >= 0" for "malicious > 0"
ClassifyBlocksOnZero(r) ==
    IF HasData(r)
    THEN IF ExtractRaises(r) THEN "raise"
         ELSE IF ExtractStats(r).malicious >= 0 THEN "malicious"
         ELSE IF ExtractStats(r).suspicious > 0 THEN "suspicious"
         ELSE "clean"
    ELSE IF r.isdict /\ r.error = "truthy" THEN "error"
    ELSE "no_data"

\* Classify that asks the operator about a malicious verdict, as it does
\* about a suspicious one
ClassifyMaliciousAsks(r) ==
    IF HasData(r)
    THEN IF ExtractRaises(r) THEN "raise"
         ELSE IF ExtractStats(r).malicious > 0 THEN "suspicious"
         ELSE IF ExtractStats(r).suspicious > 0 THEN "suspicious"
         ELSE "clean"
    ELSE IF r.isdict /\ r.error = "truthy" THEN "error"
    ELSE "no_data"

\* Classify with the suspicious test dropped
ClassifyIgnoresSuspicious(r) ==
    IF HasData(r)
    THEN IF ExtractRaises(r) THEN "raise"
         ELSE IF ExtractStats(r).malicious > 0 THEN "malicious"
         ELSE "clean"
    ELSE IF r.isdict /\ r.error = "truthy" THEN "error"
    ELSE "no_data"

\* Classify with "suspicious >= 0" for "suspicious > 0"
ClassifyWarnsOnClean(r) ==
    IF HasData(r)
    THEN IF ExtractRaises(r) THEN "raise"
         ELSE IF ExtractStats(r).malicious > 0 THEN "malicious"
         ELSE IF ExtractStats(r).suspicious >= 0 THEN "suspicious"
         ELSE "clean"
    ELSE IF r.isdict /\ r.error = "truthy" THEN "error"
    ELSE "no_data"

\* Classify that takes the error path whenever there is no data object
ClassifyNoDataAsError(r) ==
    IF HasData(r)
    THEN IF ExtractRaises(r) THEN "raise"
         ELSE IF ExtractStats(r).malicious > 0 THEN "malicious"
         ELSE IF ExtractStats(r).suspicious > 0 THEN "suspicious"
         ELSE "clean"
    ELSE "error"

\* lines 149-193 up to the first return or prompt: the branch taken
Classify(r) ==
    IF HasData(r)
    THEN IF ExtractRaises(r) THEN "raise"
         ELSE IF ExtractStats(r).malicious > 0 THEN "malicious"
         ELSE IF ExtractStats(r).suspicious > 0 THEN "suspicious"
         ELSE "clean"
    ELSE IF r.isdict /\ r.error = "truthy" THEN "error"
    ELSE "no_data"

\* the permissive reading of a response: "if choice == 'n': return False"
ConfirmsUnlessNo(c) == c # << "n" >>

\* a prompt whose default is yes: "if choice not in ('', 'y'): return False"
ConfirmsOrEmpty(c) == c \in { << "y" >>, << >> }

\* "if choice != 'y': return False", else return True
Confirms(c) == c = << "y" >>

Msg(m, n) == [msg |-> m, n |-> n]


-----------------------------------------------------------------------------
(* Initial state: UnifiedCLI.__init__ has probed the managers *)

Init ==
    /\ available_managers \in AvailableLists
    /\ pc = "main"
    /\ command = "None"
    /\ package_name = << >>
    /\ manager_arg = "None"
    /\ candidates = << >>
    /\ manager_choice = << "None" >>
    /\ packages = [m \in { "npm", "pip3" } |-> { }]
    /\ manager_name = "None"
    /\ spinner = "not_started"
    /\ file_hash = "None"
    /\ resp = PlainReply(0, "unset")
    /\ result = NoResult
    /\ stats = NoStats
    /\ response = << >>
    /\ choice = << >>
    /\ answered = "none"
    /\ prompts = 0
    /\ scans = 0
    /\ scan_ret = "unset"
    /\ ret_line = 0
    /\ raised = "None"
    /\ out = << >>
    /\ calls = << >>
    /\ tmpdirs = 0
    /\ scratch = "none"
    /\ rc1 = "unset"
    /\ rc2 = "unset"
    /\ meta = "unset"
    /\ tarball_url = "None"
    /\ status_code = "unset"
    /\ registry = "unset"
    /\ version = "None"
    /\ url = << >>
    /\ cwd_archive = FALSE
    /\ queries = 0

scanVars ==
    << spinner, file_hash, resp, result, stats, response, choice, answered,
       prompts, scans, scan_ret, ret_line, raised, tmpdirs, scratch, rc1, rc2,
       meta, tarball_url, status_code, registry, version, url, cwd_archive,
       queries >>

InList(x, lst) == \E i \in 1..Len(lst) : lst[i] = x

-----------------------------------------------------------------------------
(* The orchestrator: install_package, update_package, upgrade_package *)

\* install_package / upgrade_package up to the first blocking call: with -m
\* the manager must be available (lines 206-214, 434-444); without it the
\* available managers are listed and the operator is asked (232-238, 456-463)
WithOptionalManager(cmd, pkg, mgr) ==
    /\ pc = "main"
    /\ command' = cmd
    /\ package_name' = pkg
    /\ manager_arg' = mgr
    /\ IF mgr # "None"
       THEN IF ~InList(mgr, available_managers)
            THEN /\ pc' = "done"
                 /\ out' = Append(out, Msg("manager_not_available", 0))
                 /\ UNCHANGED << candidates, manager_name >>
            ELSE /\ pc' = "scan"
                 /\ manager_name' = mgr
                 /\ UNCHANGED << candidates, out >>
       ELSE /\ pc' = "select"
            /\ candidates' = available_managers
            /\ UNCHANGED << manager_name, out >>
    /\ UNCHANGED << available_managers, manager_choice, packages, calls >>
    /\ UNCHANGED scanVars

InstallPackage ==
    \E pkg \in PackageNames, mgr \in ManagerArgs :
        WithOptionalManager("install", pkg, mgr)

UpgradePackage ==
    \E pkg \in PackageNames, mgr \in ManagerArgs :
        WithOptionalManager("upgrade", pkg, mgr)

\* FoundManagers without the name test: every available manager whose listing
\* is not empty
FoundManagersWithAnyPackage(pkg, listing) ==
    LET Lists(m) == listing[m] # { }
    IN  SelectSeq(available_managers, Lists)

\* lines 371-374: the available managers whose listing holds the name,
\* compared case-insensitively, in the order of available_managers
FoundManagers(pkg, listing) ==
    LET Lists(m) == \E n \in listing[m] : Lower(n) = Lower(pkg)
    IN  SelectSeq(available_managers, Lists)

\* update_package up to the first blocking call (lines 367-408)
UpdatePackage ==
    \E pkg \in PackageNames,
       listing \in [{ "npm", "pip3" } -> SUBSET InstalledNames] :
        LET found_managers == FoundManagers(pkg, listing)
        IN  /\ pc = "main"
            /\ command' = "update"
            /\ package_name' = pkg
            /\ manager_arg' = "None"
            /\ packages' = listing
            /\ candidates' = found_managers
            /\ IF found_managers = << >>
               THEN /\ pc' = "done"
                    /\ out' = Append(out, Msg("not_found_in_installed", 0))
                    /\ UNCHANGED manager_name
               ELSE IF Len(found_managers) = 1
               THEN /\ pc' = "scan"
                    /\ manager_name' = found_managers[1]
                    /\ UNCHANGED out
               ELSE /\ pc' = "select"
                    /\ UNCHANGED << manager_name, out >>
            /\ UNCHANGED << available_managers, manager_choice, calls >>
            /\ UNCHANGED scanVars

\* the interactive selection (lines 237-240, 407-410, 462-465): int(choice) - 1
\* indexes the candidate list; ValueError and IndexError print "Invalid
\* choice"; end of input raises EOFError, which that handler does not catch
SelectManager ==
    /\ pc = "select"
    /\ \/ \E line \in InputLines :
            LET parsed == ParseInt(line)
                picked == PyIndex(candidates, parsed.val - 1)
            IN  /\ manager_choice' = line
                /\ IF parsed.ok /\ picked.ok
                   THEN /\ manager_name' = picked.val
                        /\ pc' = "scan"
                        /\ UNCHANGED out
                   ELSE /\ pc' = "done"
                        /\ out' = Append(out, Msg("invalid_choice", 0))
                        /\ UNCHANGED manager_name
       \/ /\ pc' = "crashed"
          /\ UNCHANGED << manager_choice, manager_name, out >>
    /\ UNCHANGED << available_managers, command, package_name, manager_arg,
                    candidates, packages, calls >>
    /\ UNCHANGED scanVars

\* Proceed without the "if not self._virustotal_scan(...): return" test
ProceedIgnoringScan ==
    /\ pc = "scan_return"
    /\ pc' = "done"
    /\ calls' = Append(calls,
                [manager |-> manager_name,
                 op |-> IF command = "install" THEN "install_package"
                        ELSE "upgrade_package",
                 package |-> package_name])
    /\ UNCHANGED << available_managers, command, package_name, manager_arg,
                    candidates, manager_choice, packages, manager_name, out >>
    /\ UNCHANGED scanVars

\* the caller after _virustotal_scan returned: "if not ...: return", else the
\* manager's install_package (install) or upgrade_package (update, upgrade)
Proceed ==
    /\ pc = "scan_return"
    /\ pc' = "done"
    /\ IF scan_ret = "False"
       THEN UNCHANGED calls
       ELSE calls' = Append(calls,
                [manager |-> manager_name,
                 op |-> IF command = "install" THEN "install_package"
                        ELSE "upgrade_package",
                 package |-> package_name])
    /\ UNCHANGED << available_managers, command, package_name, manager_arg,
                    candidates, manager_choice, packages, manager_name, out >>
    /\ UNCHANGED scanVars


-----------------------------------------------------------------------------
(* _virustotal_scan, step by step; the steps are cut at its blocking calls *)

orchVars ==
    << available_managers, command, package_name, manager_arg, candidates,
       manager_choice, packages, manager_name, calls >>

\* the scratch directory, the locals of download_package_and_get_hash and
\* what it leaves in the working directory
resolverVars ==
    << tmpdirs, scratch, rc1, rc2, meta, tarball_url, status_code, registry,
       version, url, cwd_archive >>

\* a handler like the one of the interactive selection, "except (ValueError,
\* IndexError)": every other exception leaves _virustotal_scan
CaughtOnlyValueError(exc) ==
    /\ raised' = exc
    /\ IF exc = "ValueError"
       THEN /\ scan_ret' = "True"
            /\ ret_line' = 196
            /\ out' = Append(out, Msg("scan_skipped", 0))
            /\ pc' = "scan_return"
       ELSE /\ pc' = "crashed"
            /\ UNCHANGED << scan_ret, ret_line, out >>

\* lines 194-196: any Exception raised inside the try block is caught,
\* "scan skipped due to error" is printed and True is returned
Caught(exc) ==
    /\ raised' = exc
    /\ scan_ret' = "True"
    /\ ret_line' = 196
    /\ out' = Append(out, Msg("scan_skipped", 0))
    /\ pc' = "scan_return"

\* a plain return of the scan
Returns(value, line, msg) ==
    /\ scan_ret' = value
    /\ ret_line' = line
    /\ out' = Append(out, msg)
    /\ pc' = "scan_return"
    /\ UNCHANGED raised

\* lines 113-127: the call begins and the spinner thread is started
ScanStart ==
    /\ pc = "scan"
    /\ pc' = "resolve"
    /\ scans' = scans + 1
    /\ spinner' = "running"
    /\ out' = Append(out, Msg("preparing_scan", 0))
    /\ UNCHANGED << file_hash, resp, result, stats, response, choice,
                    answered, prompts, scan_ret, ret_line, raised >>
    /\ UNCHANGED << resolverVars, queries >>
    /\ UNCHANGED orchVars

\* the locals of the npm branch that hold strings
npmStrings == << registry, version, url >>

\* what no resolver step touches
resolverFrame ==
    << resp, result, stats, response, choice, answered, scans, queries,
       orchVars >>

\* a resolver that removes the scratch directory before each return instead
\* of in a finally clause: an exception leaves the directory behind
RemoveScratchUnlessRaised(r) ==
    /\ scratch' = IF r.kind = "raise" THEN scratch ELSE "removed"
    /\ rc1' = "unset"
    /\ rc2' = "unset"
    /\ meta' = "unset"
    /\ tarball_url' = "None"
    /\ status_code' = "unset"
    /\ registry' = "unset"
    /\ version' = "None"
    /\ url' = << >>

\* virustotal.py:198-202: the finally clause removes the scratch directory
\* and what is in it; the locals of the call end with it
RemoveScratch(r) ==
    /\ scratch' = "removed"
    /\ rc1' = "unset"
    /\ rc2' = "unset"
    /\ meta' = "unset"
    /\ tarball_url' = "None"
    /\ status_code' = "unset"
    /\ registry' = "unset"
    /\ version' = "None"
    /\ url' = << >>

\* cli.py:129-143, after download_package_and_get_hash ended with outcome r:
\* an exception skips lines 130-131 and is caught at 194; otherwise the
\* spinner is stopped and joined, and either the no-artifact prompt is issued
\* or the digest is printed
BackInScan(r) ==
    CASE r.kind = "raise" ->
           /\ Caught(r.exc)
           /\ UNCHANGED << spinner, file_hash, prompts >>
      [] r.kind = "none" ->
           /\ spinner' = "joined"
           /\ file_hash' = "None"
           /\ out' = Append(out, Msg("failed_download", 0))
           /\ prompts' = prompts + 1
           /\ pc' = "prompt_no_hash"
           /\ UNCHANGED << scan_ret, ret_line, raised >>
      [] r.kind = "hash" ->
           /\ spinner' = "joined"
           /\ file_hash' = "sha256"
           /\ out' = Append(out, Msg("package_hash", 0))
           /\ pc' = "query"
           /\ UNCHANGED << scan_ret, ret_line, raised, prompts >>

\* download_package_and_get_hash ends with outcome r
ResolverEnds(r) ==
    /\ RemoveScratch(r)
    /\ BackInScan(r)
    /\ UNCHANGED tmpdirs

\* the resolver moves on to its step at position next
ResolverGoes(next) ==
    /\ pc' = next
    /\ UNCHANGED << spinner, file_hash, prompts, scan_ret, ret_line, raised,
                    out, tmpdirs >>

\* the scratch directory after a step that may have written a file into it
Landed(landed) == IF landed THEN "file" ELSE scratch

\* virustotal.py:164-170 and 197: the scratch directory is made, then the
\* branch of the manager is entered; any other manager returns None
download_package_and_get_hash ==
    /\ pc = "resolve"
    /\ tmpdirs' = tmpdirs + 1
    /\ LET manager == IF manager_name = "None" THEN "pip3" ELSE manager_name
       IN  IF manager \in { "pip3", "npm" }
           THEN /\ scratch' = "empty"
                /\ pc' = IF manager = "pip3" THEN "pip_primary" ELSE "npm_view"
                /\ UNCHANGED << rc1, rc2, meta, tarball_url, status_code, npmStrings, spinner,
                                file_hash, prompts, scan_ret, ret_line,
                                raised, out >>
           ELSE /\ RemoveScratch(NoArtifact)
                /\ BackInScan(NoArtifact)
    /\ UNCHANGED << resolverFrame, cwd_archive >>

\* virustotal.py:62-64: pip3 download into the scratch directory; the call
\* is not guarded, so an executable that cannot be started raises
\* FileNotFoundError out of the resolver
PipDownload ==
    /\ pc = "pip_primary"
    /\ \E rc \in ExitCodes, landed \in BOOLEAN :
         IF rc = "launch_error"
         THEN /\ ~landed
              /\ ResolverEnds(Raises("FileNotFoundError"))
         ELSE /\ rc1' = rc
              /\ scratch' = Landed(landed)
              /\ ResolverGoes(IF rc = "zero" THEN "pip_listdir"
                              ELSE "pip_alternate")
              /\ UNCHANGED << rc2, meta, tarball_url, status_code, npmStrings >>
    /\ UNCHANGED << resolverFrame, cwd_archive >>

\* a pip resolver that lists the scratch directory whatever the exit code of
\* the alternate invocation was
PipDownloadAlternateThenLists ==
    /\ pc = "pip_alternate"
    /\ \E rc \in ExitCodes, landed \in BOOLEAN :
         IF rc = "launch_error"
         THEN /\ ~landed
              /\ ResolverEnds(Raises("FileNotFoundError"))
         ELSE /\ rc2' = rc
              /\ scratch' = Landed(landed)
              /\ ResolverGoes("pip_listdir")
              /\ UNCHANGED << rc1, meta, tarball_url, status_code, npmStrings >>
    /\ UNCHANGED << resolverFrame, cwd_archive >>

\* virustotal.py:65-68: python -m pip download, reached when pip3 download
\* exited non-zero; a non-zero exit of this one returns None at once
PipDownloadAlternate ==
    /\ pc = "pip_alternate"
    /\ \E rc \in ExitCodes, landed \in BOOLEAN :
         CASE rc = "launch_error" ->
                /\ ~landed
                /\ ResolverEnds(Raises("FileNotFoundError"))
           [] rc = "nonzero" ->
                ResolverEnds(NoArtifact)
           [] rc = "zero" ->
                /\ rc2' = rc
                /\ scratch' = Landed(landed)
                /\ ResolverGoes("pip_listdir")
                /\ UNCHANGED << rc1, meta, tarball_url, status_code, npmStrings >>
    /\ UNCHANGED << resolverFrame, cwd_archive >>

\* virustotal.py:69-73: the first regular file listed in the scratch
\* directory is hashed (calculate_file_hash is not guarded); no file: None
PipListAndHash ==
    /\ pc = "pip_listdir"
    /\ IF scratch = "file"
       THEN \E h \in HashAnswers :
                ResolverEnds(IF h = "ok" THEN Hashed ELSE Raises("OSError"))
       ELSE ResolverEnds(NoArtifact)
    /\ UNCHANGED << resolverFrame, cwd_archive >>

\* an npm branch that asks the latest endpoint whatever the metadata held
GetNpmMetadataThenLatest ==
    /\ pc = "npm_view"
    /\ \E answer \in RegistryAnswers, m \in MetaShapes, v \in Versions :
         /\ registry' = _get_npm_registry(answer)
         /\ meta' = m
         /\ version' = IF m = "version" THEN v ELSE "None"
         /\ tarball_url' = IF m = "tarball" THEN "view" ELSE "None"
         /\ ResolverGoes("npm_latest")
    /\ UNCHANGED << scratch, rc1, rc2, status_code, url >>
    /\ UNCHANGED << resolverFrame, cwd_archive >>

\* virustotal.py:172-181: npm config get registry (never fails: a default is
\* used), npm view --json, and the dist.tarball the metadata may embed
_get_npm_metadata ==
    /\ pc = "npm_view"
    /\ \E answer \in RegistryAnswers, m \in MetaShapes, v \in Versions :
         /\ registry' = _get_npm_registry(answer)
         /\ meta' = m
         /\ version' = IF m = "version" THEN v ELSE "None"
         /\ tarball_url' = IF m = "tarball" THEN "view" ELSE "None"
         /\ ResolverGoes(IF m = "tarball" THEN "npm_download"
                         ELSE "npm_latest")
    /\ UNCHANGED << scratch, rc1, rc2, status_code, url >>
    /\ UNCHANGED << resolverFrame, cwd_archive >>

\* virustotal.py:183-185: the registry latest endpoint, asked when no URL
\* was found; line 186 then decides between construction, download and pack
_get_npm_latest_tarball_from_registry ==
    /\ pc = "npm_latest"
    /\ url' = LatestUrl(package_name, registry)
    /\ \E a \in LatestAnswers :
         /\ tarball_url' = IF a = "url" THEN "latest" ELSE "None"
         /\ ResolverGoes(IF a = "url" THEN "npm_download"
                         ELSE IF meta = "version" THEN "npm_construct"
                         ELSE "npm_pack")
    /\ UNCHANGED << scratch, rc1, rc2, meta, status_code, registry, version >>
    /\ UNCHANGED << resolverFrame, cwd_archive >>

\* virustotal.py:186-189 and 120-128: the URL is built from the version of
\* the metadata; the call is not guarded, so the ValueError of a name that
\* starts with '@' and holds no '/' leaves the resolver
_construct_npm_tarball_url ==
    /\ pc = "npm_construct"
    /\ IF ConstructRaises(package_name)
       THEN ResolverEnds(Raises("ValueError"))
       ELSE /\ tarball_url' = "constructed"
            /\ url' = TarballUrl(package_name, version, registry)
            /\ ResolverGoes("npm_download")
            /\ UNCHANGED << scratch, rc1, rc2, meta, status_code, registry,
                            version >>
    /\ UNCHANGED << resolverFrame, cwd_archive >>

\* virustotal.py:191-194 and 131-144: GET of the tarball; on status 200 the
\* body is written to <scratch>/<package_name>.tgz and hashed. For a name
\* that holds a '/' that path lies in a sub-directory nobody created, open()
\* raises, and like every exception of the function it becomes None. None
\* leads on to the pack fallback.
_download_npm_tarball ==
    /\ pc = "npm_download"
    /\ \E a \in DownloadAnswers, h \in HashAnswers :
         LET written == a = "200" /\ ~HasSlash(package_name)
         IN  IF written /\ h = "ok"
             THEN ResolverEnds(Hashed)
             ELSE /\ status_code' = a
                  /\ scratch' = Landed(written)
                  /\ ResolverGoes("npm_pack")
                  /\ UNCHANGED << rc1, rc2, meta, tarball_url, npmStrings >>
    /\ UNCHANGED << resolverFrame, cwd_archive >>

\* virustotal.py:196 and 147-161: npm pack in the working directory, the
\* archive moved into the scratch directory and hashed; every failure and
\* every exception of the function is None. An archive that was made and
\* not moved (lines 154-155 return, shutil.move raises) stays where npm
\* pack put it.
_npm_pack_fallback ==
    /\ pc = "npm_pack"
    /\ \E a \in PackAnswers, h \in HashAnswers :
         /\ cwd_archive' = (cwd_archive \/ a \in { "no_file", "move_failed" })
         /\ ResolverEnds(IF a = "moved" /\ h = "ok" THEN Hashed
                         ELSE NoArtifact)
    /\ UNCHANGED resolverFrame

\* the read of a y/n prompt and the lines after it: the response is stripped
\* and lower-cased, anything but 'y' returns False, 'y' returns True; end of
\* input raises EOFError inside the try block
ReadAnswer(at, lineFalse, lineTrue, msgTrue) ==
    /\ pc = at
    /\ \/ \E line \in InputLines :
            /\ response' = line
            /\ choice' = Lower(Strip(line))
            /\ answered' = "line"
            /\ IF ~Confirms(Lower(Strip(line)))
               THEN Returns("False", lineFalse, Msg("cancelled_by_user", 0))
               ELSE Returns("True", lineTrue, Msg(msgTrue, 0))
       \/ /\ answered' = "eof"
          /\ Caught("EOFError")
          /\ UNCHANGED << response, choice >>
    /\ UNCHANGED << spinner, file_hash, resp, result, stats, prompts, scans >>
    /\ UNCHANGED << resolverVars, queries >>
    /\ UNCHANGED orchVars

\* lines 135-140
PromptNoHash ==
    ReadAnswer("prompt_no_hash", 138, 140, "proceed_without_scan")

\* lines 171-176
PromptSuspicious ==
    ReadAnswer("prompt_suspicious", 174, 176, "proceed_despite_suspicious")

\* lines 184-189
PromptError ==
    ReadAnswer("prompt_error", 187, 189, "proceed_despite_error")

\* lines 145-146: the reputation query, one requests.get (virustotal.py:32)
Query ==
    /\ pc = "query"
    /\ queries' = queries + 1
    /\ \E reply \in Replies :
         LET r == scan_file_hash_with_virustotal(reply)
         IN  /\ resp' = reply
             /\ IF r.raised
                THEN /\ Caught(IF reply.body = "no_reply"
                               THEN "RequestException" ELSE "JSONDecodeError")
                     /\ UNCHANGED result
                ELSE /\ result' = r
                     /\ pc' = "decide"
                     /\ UNCHANGED << scan_ret, ret_line, raised, out >>
    /\ UNCHANGED << spinner, file_hash, stats, response, choice, answered,
                    prompts, scans >>
    /\ UNCHANGED resolverVars
    /\ UNCHANGED orchVars

\* a scan that answers a service error by sending the query again
DecideRetriesOnError ==
    /\ pc = "decide"
    /\ LET branch == Classify(result)
       IN  CASE branch = "raise" ->
                  /\ Caught("TypeError")
                  /\ UNCHANGED << stats, prompts >>
             [] branch = "malicious" ->
                  /\ stats' = ExtractStats(result)
                  /\ Returns("False", 167,
                         Msg("malicious_abort", ExtractStats(result).malicious))
                  /\ UNCHANGED prompts
             [] branch = "suspicious" ->
                  /\ stats' = ExtractStats(result)
                  /\ out' = Append(out,
                         Msg("suspicious_warning",
                             ExtractStats(result).suspicious))
                  /\ prompts' = prompts + 1
                  /\ pc' = "prompt_suspicious"
                  /\ UNCHANGED << scan_ret, ret_line, raised >>
             [] branch = "clean" ->
                  /\ stats' = ExtractStats(result)
                  /\ Returns("True", 179, Msg("scan_clean", 0))
                  /\ UNCHANGED prompts
             [] branch = "error" ->
                  /\ out' = Append(out, Msg("virustotal_error", result.code))
                  /\ pc' = "query"
                  /\ UNCHANGED << stats, prompts, scan_ret, ret_line, raised >>
             [] branch = "no_data" ->
                  /\ Returns("True", 193, Msg("no_data", 0))
                  /\ UNCHANGED << stats, prompts >>
    /\ UNCHANGED << spinner, file_hash, resp, result, response, choice,
                    answered, scans >>
    /\ UNCHANGED << resolverVars, queries >>
    /\ UNCHANGED orchVars

\* a verdict that depends on the ecosystem: what npm serves is not asked
\* about when it is only suspicious
DecideTrustsNpm ==
    /\ pc = "decide"
    /\ LET branch == IF manager_name = "npm"
                        /\ Classify(result) = "suspicious"
                     THEN "clean" ELSE Classify(result)
       IN  CASE branch = "raise" ->
                  /\ Caught("TypeError")
                  /\ UNCHANGED << stats, prompts >>
             [] branch = "malicious" ->
                  /\ stats' = ExtractStats(result)
                  /\ Returns("False", 167,
                         Msg("malicious_abort", ExtractStats(result).malicious))
                  /\ UNCHANGED prompts
             [] branch = "suspicious" ->
                  /\ stats' = ExtractStats(result)
                  /\ out' = Append(out,
                         Msg("suspicious_warning",
                             ExtractStats(result).suspicious))
                  /\ prompts' = prompts + 1
                  /\ pc' = "prompt_suspicious"
                  /\ UNCHANGED << scan_ret, ret_line, raised >>
             [] branch = "clean" ->
                  /\ stats' = ExtractStats(result)
                  /\ Returns("True", 179, Msg("scan_clean", 0))
                  /\ UNCHANGED prompts
             [] branch = "error" ->
                  /\ out' = Append(out, Msg("virustotal_error", result.code))
                  /\ prompts' = prompts + 1
                  /\ pc' = "prompt_error"
                  /\ UNCHANGED << stats, scan_ret, ret_line, raised >>
             [] branch = "no_data" ->
                  /\ Returns("True", 193, Msg("no_data", 0))
                  /\ UNCHANGED << stats, prompts >>
    /\ UNCHANGED << spinner, file_hash, resp, result, response, choice,
                    answered, scans >>
    /\ UNCHANGED << resolverVars, queries >>
    /\ UNCHANGED orchVars

\* lines 149-193: the verdict, up to a return or to a prompt being issued
Decide ==
    /\ pc = "decide"
    /\ LET branch == Classify(result)
       IN  CASE branch = "raise" ->
                  /\ Caught("TypeError")
                  /\ UNCHANGED << stats, prompts >>
             [] branch = "malicious" ->
                  /\ stats' = ExtractStats(result)
                  /\ Returns("False", 167,
                         Msg("malicious_abort", ExtractStats(result).malicious))
                  /\ UNCHANGED prompts
             [] branch = "suspicious" ->
                  /\ stats' = ExtractStats(result)
                  /\ out' = Append(out,
                         Msg("suspicious_warning",
                             ExtractStats(result).suspicious))
                  /\ prompts' = prompts + 1
                  /\ pc' = "prompt_suspicious"
                  /\ UNCHANGED << scan_ret, ret_line, raised >>
             [] branch = "clean" ->
                  /\ stats' = ExtractStats(result)
                  /\ Returns("True", 179, Msg("scan_clean", 0))
                  /\ UNCHANGED prompts
             [] branch = "error" ->
                  /\ out' = Append(out, Msg("virustotal_error", result.code))
                  /\ prompts' = prompts + 1
                  /\ pc' = "prompt_error"
                  /\ UNCHANGED << stats, scan_ret, ret_line, raised >>
             [] branch = "no_data" ->
                  /\ Returns("True", 193, Msg("no_data", 0))
                  /\ UNCHANGED << stats, prompts >>
    /\ UNCHANGED << spinner, file_hash, resp, result, response, choice,
                    answered, scans >>
    /\ UNCHANGED << resolverVars, queries >>
    /\ UNCHANGED orchVars

-----------------------------------------------------------------------------

Next ==
    \/ InstallPackage
    \/ UpgradePackage
    \/ UpdatePackage
    \/ SelectManager
    \/ ScanStart
    \/ download_package_and_get_hash
    \/ PipDownload
    \/ PipDownloadAlternate
    \/ PipListAndHash
    \/ _get_npm_metadata
    \/ _get_npm_latest_tarball_from_registry
    \/ _construct_npm_tarball_url
    \/ _download_npm_tarball
    \/ _npm_pack_fallback
    \/ PromptNoHash
    \/ Query
    \/ Decide
    \/ PromptSuspicious
    \/ PromptError
    \/ Proceed

Spec == Init /\ [][Next]_vars


-----------------------------------------------------------------------------
(* Vocabulary of the properties, stated on the reply and on what the run  *)
(* did, not on the operators that model the code.                         *)

\* the count a stats field reports (an absent field reports none: 0)
Reported(f) == IF f.k = "int" THEN f.v ELSE 0

\* the reply is a Found response: 200, a data object with attributes and
\* last_analysis_stats objects, and every count present is an integer
IsFound(r) ==
    /\ r.status = 200
    /\ r.body = "dict"
    /\ r.data = "dict"
    /\ r.attributes = "dict"
    /\ r.last_analysis_stats = "dict"
    /\ \A f \in { r.malicious, r.suspicious, r.harmless, r.undetected } :
           f.k # "bad"

\* _virustotal_scan has returned
ScanReturned == scan_ret # "unset"

\* the verdict has been taken (the Decide step is behind)
Decided == pc \notin { "query", "decide" }

\* message m with number n was printed
Printed(m, n) == \E i \in 1..Len(out) : out[i] = Msg(m, n)

\* the responses that are an explicit confirmation: 'y' in either case, with
\* or without surrounding blanks
ExplicitYes == { << "y" >>, << " ", "Y", " " >> }

-----------------------------------------------------------------------------
(* Properties *)

\* C1: a Found response with malicious > 0, whatever the other counts are,
\* makes _virustotal_scan return False at line 167: it never reaches the
\* suspicious prompt (AllowWithWarning) and never returns True (Allow).
C1_MaliciousAlwaysBlocks ==
    (IsFound(resp) /\ Reported(resp.malicious) > 0 /\ Decided)
        => /\ scan_ret = "False"
           /\ ret_line = 167
           /\ pc \in { "scan_return", "done" }

\* C1 witness: the tie-break case, malicious below suspicious, has been
\* decided and the scan returned False.
C1_Witness ==
    /\ IsFound(resp)
    /\ Reported(resp.malicious) = 1
    /\ Reported(resp.suspicious) = 2
    /\ pc = "scan_return"
    /\ scan_ret = "False"


\* C2: on every path of install_package, update_package and upgrade_package
\* (manager given with -m, chosen interactively, auto-detected) the scan runs
\* at most once, exactly once wherever a manager was settled on, and has
\* returned True before the manager's install/upgrade command is invoked;
\* after a scan that returned False the command is never invoked.
C2_ScanOnceBeforeCommand ==
    /\ [](/\ scans <= 1
          /\ Len(calls) <= 1
          /\ (pc = "done" /\ manager_name # "None") => scans = 1
          /\ calls # << >> => (scans = 1 /\ scan_ret = "True")
          /\ scan_ret = "False" => calls = << >>)
    /\ [][calls' # calls =>
            /\ pc = "scan_return"
            /\ scans = 1
            /\ scan_ret = "True"
            /\ calls = << >>
            /\ calls' = << [manager |-> manager_name,
                            op |-> IF command = "install"
                                   THEN "install_package"
                                   ELSE "upgrade_package",
                            package |-> package_name] >>]_vars

\* C2 witness: an update whose package two managers list, the manager chosen
\* interactively, the scan passed and the upgrade command invoked.
C2_Witness ==
    /\ command = "update"
    /\ Len(candidates) = 2
    /\ scans = 1
    /\ scan_ret = "True"
    /\ Len(calls) = 1
    /\ calls[1].op = "upgrade_package"

\* C3: an automatic False (the scan returned False and the operator was never
\* asked) comes only from a reply whose malicious count is above zero: never
\* from a resolver failure, an exception, a service error, a reply without
\* data or a reply with zero malicious detections.
C3_BlockOnlyFromMalicious ==
    (scan_ret = "False" /\ prompts = 0)
        => /\ IsFound(resp)
           /\ Reported(resp.malicious) > 0
           /\ file_hash # "None"
           /\ raised = "None"

\* C3 witness: an automatic False after a reply with two malicious detections.
C3_Witness ==
    /\ scan_ret = "False"
    /\ prompts = 0
    /\ resp.malicious = [k |-> "int", v |-> 2]
    /\ resp.suspicious = [k |-> "int", v |-> 0]

\* the failures of resolution, hashing and reputation lookup that surface as
\* exceptions: a subprocess that cannot be launched, an I/O error while
\* hashing, a network exception, an unparsable response body
PipelineFailures ==
    { "FileNotFoundError", "OSError", "RequestException", "JSONDecodeError" }

\* C4 (as claimed): no failure during resolution, hashing or reputation lookup
\* ends in proceed = true without an operator confirmation: after such a
\* failure the scan returns True only if the operator was asked and
\* confirmed.
C4_FailuresNeverProceedUnasked ==
    (raised \in PipelineFailures /\ scan_ret = "True")
        => (prompts > 0 /\ answered = "line" /\ response \in ExplicitYes)

\* C5 (as claimed): for a Block verdict the operator is asked for an explicit
\* confirmation.
C5_BlockAsksOperator ==
    (IsFound(resp) /\ Reported(resp.malicious) > 0 /\ ScanReturned)
        => prompts >= 1

\* C5 (amended): for a Block verdict the malicious flag is reported with its
\* count, no confirmation is requested and no response is read, the decision
\* is False, and the manager's command is not invoked: there is no override.
C5_BlockIsFinal ==
    (IsFound(resp) /\ Reported(resp.malicious) > 0 /\ ScanReturned)
        => /\ Printed("malicious_abort", Reported(resp.malicious))
           /\ prompts = 0
           /\ answered = "none"
           /\ scan_ret = "False"
           /\ calls = << >>

\* C5 witness: the orchestrator has finished after a Block verdict.
C5_Witness ==
    /\ IsFound(resp)
    /\ Reported(resp.malicious) = 2
    /\ pc = "done"
    /\ command = "install"
    /\ calls = << >>

C7_CleanProceedsUnasked ==
    (IsFound(resp) /\ Reported(resp.malicious) = 0
        /\ Reported(resp.suspicious) = 0 /\ Decided)
        => /\ scan_ret = "True"
           /\ ret_line = 179
           /\ prompts = 0
           /\ answered = "none"

\* C7 witness: a clean reply with the largest harmless count was decided.
C7_Witness ==
    /\ IsFound(resp)
    /\ resp.malicious = [k |-> "int", v |-> 0]
    /\ resp.suspicious = [k |-> "int", v |-> 0]
    /\ resp.harmless = [k |-> "int", v |-> MaxCount]
    /\ scan_ret = "True"
    /\ pc = "done"

\* the reply is a non-200 reply of the service
IsErrorReply(r) == r.body = "text" /\ r.status # 200

\* C8: every non-200 reply, whatever its status, becomes the error dict with
\* that status as code, and the operator is prompted: the scan returns
\* neither True nor False before that one prompt was issued with the code.
C8_ServiceErrorAlwaysAsks ==
    (IsErrorReply(resp) /\ pc # "query")
        => /\ result.isdict
           /\ result.code = resp.status
           /\ Decided =>
                /\ prompts = 1
                /\ Printed("virustotal_error", resp.status)
                /\ ret_line \notin { 167, 179, 193 }
                /\ ScanReturned => answered # "none"

\* C8 witness: a 429 reply, the operator confirmed at the prompt.
C8_Witness ==
    /\ resp.status = 429
    /\ prompts = 1
    /\ answered = "line"
    /\ scan_ret = "True"
    /\ ret_line = 189

\* the reply is a 200 reply without the expected structure: not a JSON
\* object, or an object with no 'data' object and no 'error' field
LacksStructure(r) ==
    /\ r.status = 200
    /\ \/ r.body = "nondict"
       \/ r.body = "dict" /\ r.data # "dict" /\ r.error = "absent"

\* C9: a 200 reply without the expected structure counts as "no data": the
\* scan returns True at line 193 and the operator is not prompted.
C9_UnstructuredReplyAllows ==
    (LacksStructure(resp) /\ Decided)
        => /\ scan_ret = "True"
           /\ ret_line = 193
           /\ prompts = 0
           /\ Printed("no_data", 0)

\* C9 witness: a 200 reply that is a JSON object without data and error.
C9_Witness ==
    /\ resp.status = 200
    /\ resp.body = "dict"
    /\ resp.data = "absent"
    /\ resp.error = "absent"
    /\ scan_ret = "True"

InScan == scans = 1 /\ ~ScanReturned

\* C12: whatever the resolver, the service and the operator do, the scan
\* ends by returning True or False: every position inside it has a next
\* step, an exception raised by resolution, hashing, the query, the count
\* extraction or a prompt is caught at line 194 and becomes the return of
\* True at line 196, and the program never stops on an exception once the
\* scan was entered.
C12_ScanAlwaysReturnsBoolean ==
    /\ InScan => (pc \notin { "done", "crashed" } /\ ENABLED Next)
    /\ pc = "crashed" => (scans = 0 /\ raised = "None")
    /\ (scans = 1 /\ pc \in { "scan_return", "done" })
         => scan_ret \in { "True", "False" }
    /\ raised # "None"
         => (scan_ret = "True" /\ ret_line = 196
             /\ pc \in { "scan_return", "done" })

\* C12 witness: end of input at the suspicious prompt raised EOFError inside
\* the scan; it was caught, True was returned and the command was invoked.
C12_Witness ==
    /\ stats.suspicious > 0
    /\ answered = "eof"
    /\ raised = "EOFError"
    /\ scan_ret = "True"
    /\ pc = "done"
    /\ calls # << >>

\* the positions inside download_package_and_get_hash
ResolverPositions ==
    { "resolve", "pip_primary", "pip_alternate", "pip_listdir", "npm_view",
      "npm_latest", "npm_construct", "npm_download", "npm_pack" }

\* the exceptions that come out of download_package_and_get_hash
ResolverExceptions == { "FileNotFoundError", "OSError", "ValueError" }

\* C13 (as claimed): whenever the resolver ends without an artifact (every
\* npm step failed, pip downloaded no file, unknown ecosystem) it returns no
\* digest and the operator is prompted: the step that ends resolution
\* without a digest issues the no-artifact prompt, and declining that prompt
\* returns False.
C13_NoArtifactAsksOperator ==
    /\ [][(pc \in ResolverPositions /\ pc' \notin ResolverPositions
           /\ file_hash' # "sha256")
            => (pc' = "prompt_no_hash" /\ prompts' = 1 /\ raised' = "None")]_vars
    /\ [](file_hash = "None" /\ answered = "line" /\ choice = << "n" >>
            => scan_ret = "False")

C15_ResolverNeverRaises == raised \notin ResolverExceptions

\* C16: the npm branch looks for a tarball URL in a fixed order: the
\* metadata view first, the registry latest endpoint only when the view
\* held no URL, the construction from the version only when neither of them
\* produced a URL. When the metadata embeds a direct URL the latest endpoint
\* is not queried and no URL is constructed: the download uses that URL.
C16_UrlStepsInOrder ==
    /\ [](/\ pc = "npm_latest"
               => (meta \in { "none", "version", "neither" }
                   /\ tarball_url = "None")
          /\ pc = "npm_construct"
               => (meta = "version" /\ tarball_url = "None")
          /\ pc = "npm_download"
               => /\ tarball_url \in { "view", "latest", "constructed" }
                  /\ tarball_url = "view" <=> meta = "tarball"
                  /\ tarball_url = "constructed" => meta = "version"
          /\ meta = "tarball"
               => (tarball_url = "view"
                   /\ pc \in { "npm_download", "npm_pack" }))
    /\ [][/\ pc' = "npm_view" => pc \in { "resolve", "npm_view" }
          /\ pc' = "npm_latest" => pc \in { "npm_view", "npm_latest" }
          /\ pc' = "npm_construct" => pc \in { "npm_latest", "npm_construct" }
          /\ (pc = "npm_view" /\ meta' = "tarball") => pc' = "npm_download"]_vars

\* C16 witness: the metadata embedded a URL and the download is next.
C16_Witness ==
    /\ pc = "npm_download"
    /\ meta = "tarball"
    /\ tarball_url = "view"

\* the package name has the scoped form @scope/name
ScopedName(name) == IsScoped(name) /\ HasSlash(name)

\* C17 (as claimed), for the scoped names @scope/name it includes: the pack
\* fallback is reached only when no URL was obtained or the download did not
\* answer HTTP success; after a URL and a 200 answer the downloaded tarball
\* is the artifact and pack is not invoked.
C17_PackOnlyWithoutSuccessfulDownload ==
    (pc = "npm_pack" /\ ScopedName(package_name))
        => (tarball_url = "None" \/ status_code # "200")

\* C18 (as claimed): the alternate invocation (python -m pip download) is
\* attempted when, and only when, the primary (pip3 download) fails,
\* including the primary that cannot be launched: the step of the primary
\* either succeeded and goes on to the listing, or is followed by the
\* alternate; and the alternate is entered from nowhere else, once.
C18_AlternateExactlyWhenPrimaryFails ==
    [][/\ pc = "pip_primary"
            => \/ pc' = "pip_listdir" /\ rc1' = "zero"
               \/ pc' = "pip_alternate" /\ rc1' # "zero"
       /\ pc' = "pip_alternate" => pc = "pip_primary"
       /\ pc = "pip_alternate" => pc' # "pip_alternate"]_vars

\* the pip branch returns (it does not raise) in this step
PipReturns ==
    /\ pc \in { "pip_alternate", "pip_listdir" }
    /\ pc' \notin ResolverPositions
    /\ raised' = "None"

\* C19 (as claimed): the pip resolver succeeds exactly when a regular file
\* is in the scratch directory after the attempt(s), whatever the exit codes
\* were: a return of the pip branch with a file in the directory returns
\* the digest.
C19_FilePresentGivesDigest ==
    [][(PipReturns /\ scratch = "file") => file_hash' = "sha256"]_vars

\* C19 (amended): the scratch directory is listed only after an invocation
\* that exited zero (the primary, or the alternate after a primary that
\* exited non-zero); then a regular file in it, whichever attempt put it
\* there, gives the digest (or the I/O error of hashing it, raised), and no
\* file gives None. When both invocations exit non-zero None is returned
\* without a look at the directory, also when a file landed in it.
C19_DigestNeedsZeroExitAndFile ==
    /\ [](pc = "pip_listdir"
            => \/ rc1 = "zero" /\ rc2 = "unset"
               \/ rc1 = "nonzero" /\ rc2 = "zero")
    /\ [][/\ (pc = "pip_listdir" /\ pc' # pc)
               => IF scratch = "file"
                  THEN \/ file_hash' = "sha256" /\ pc' = "query"
                       \/ raised' = "OSError"
                  ELSE file_hash' = "None" /\ pc' = "prompt_no_hash"
          /\ (pc = "pip_alternate" /\ PipReturns)
               => (file_hash' = "None" /\ pc' = "prompt_no_hash")
          /\ (pc \in { "pip_primary", "pip_alternate" } /\ pc' # pc)
               => file_hash' = "None"]_vars

\* C19 witness: pip3 download exited non-zero but left a file, python -m pip
\* download exited zero, and the directory with that file is listed next.
C19_Witness ==
    /\ pc = "pip_listdir"
    /\ rc1 = "nonzero"
    /\ rc2 = "zero"
    /\ scratch = "file"

\* C20: within one scan the reputation service is queried at most once, and
\* only with a digest in hand: never before resolution ended and never
\* after it failed. A failed query is not sent again: after an error reply
\* the next step issues the operator prompt, after an exception the scan
\* returns, and the count of queries stays one.
C20_OneQueryAfterDigest ==
    /\ [](/\ queries \in { 0, 1 }
          /\ queries = 1 <=> (file_hash = "sha256" /\ pc # "query")
          /\ file_hash = "None" => queries = 0)
    /\ [][/\ queries' # queries
               => (pc = "query" /\ queries = 0 /\ file_hash = "sha256")
          /\ (pc = "decide" /\ IsErrorReply(resp) /\ pc' # pc)
               => (pc' = "prompt_error" /\ prompts' = 1)]_vars

\* C20 witness: the service answered 500, the operator was asked and
\* declined, and the one query was the only one.
C20_Witness ==
    /\ resp.status = 500
    /\ IsErrorReply(resp)
    /\ queries = 1
    /\ answered = "line"
    /\ scan_ret = "False"
    /\ pc = "done"

\* One run in which every step that the program itself can complete is
\* taken: local computation, the operator answering a prompt, and the two
\* calls made with a timeout (the latest endpoint, timeout=20 at
\* virustotal.py:106; the tarball download, timeout=30 at :135), whose
\* timeout is an exception the function turns into None. The steps that
\* return from a call made without a timeout carry no fairness, because the
\* tool or service may never answer: the pip invocations (:63, :66), npm
\* config get and npm view (:79, :91), npm pack (:150) and the reputation
\* query (:32).
FairSpec ==
    /\ Spec
    /\ WF_vars(ScanStart)
    /\ WF_vars(download_package_and_get_hash)
    /\ WF_vars(PipListAndHash)
    /\ WF_vars(_get_npm_latest_tarball_from_registry)
    /\ WF_vars(_construct_npm_tarball_url)
    /\ WF_vars(_download_npm_tarball)
    /\ WF_vars(PromptNoHash)
    /\ WF_vars(PromptSuspicious)
    /\ WF_vars(PromptError)
    /\ WF_vars(Decide)
    /\ WF_vars(Proceed)

\* C21 (as claimed): every blocking external call of the verification is
\* bounded by a timeout, so once _virustotal_scan was entered it eventually
\* returns a decision, provided the operator answers every prompt, even
\* when a tool or a service never responds.
C21_ScanEventuallyReturns == (scans = 1) ~> ScanReturned

\* C22 (as claimed): the progress thread runs only during the resolve step:
\* whenever the scan is past resolution (at a prompt, at the query, at the
\* verdict, or returned to the orchestrator) the thread has been stopped and
\* joined.
C22_SpinnerJoinedAfterResolve ==
    (scans = 1 /\ pc \notin ResolverPositions) => spinner = "joined"

\* the reply is one the scan asks the operator about: a Found response with
\* no malicious and some suspicious count, a non-200 reply, or a 200 object
\* without a data object that carries a truthy 'error'
AsksAbout(r) ==
    \/ IsFound(r) /\ Reported(r.malicious) = 0 /\ Reported(r.suspicious) > 0
    \/ IsErrorReply(r)
    \/ r.status = 200 /\ r.body = "dict" /\ r.data # "dict" /\ r.error = "truthy"

\* the decision as a function of the reply and of how the prompt (if any)
\* was answered, and of nothing else
DecisionOf(r, how, line) ==
    IF IsFound(r) /\ Reported(r.malicious) > 0 THEN "False"
    ELSE IF AsksAbout(r) /\ how = "line" /\ line \notin ExplicitYes THEN "False"
    ELSE "True"

\* C23: the decision of a scan that queried the service is the value of one
\* function of the reply and the operator's response, whatever the package
\* name, the ecosystem, the command and the way the manager was chosen are;
\* and the operator is asked exactly for the replies that function asks
\* about.
C23_DecisionDependsOnReplyAndResponse ==
    (queries = 1 /\ ScanReturned)
        => /\ scan_ret = DecisionOf(resp, answered, response)
           /\ answered # "none" <=> AsksAbout(resp)

\* C23 witness: an npm upgrade of @s/n chosen interactively got a suspicious
\* reply and the operator's 'y', and returned True like every other run
\* with that reply and response.
C23_Witness ==
    /\ command = "upgrade"
    /\ manager_arg = "None"
    /\ manager_name = "npm"
    /\ package_name = << "@", "s", "/", "n" >>
    /\ queries = 1
    /\ resp.suspicious = [k |-> "int", v |-> 1]
    /\ resp.malicious = [k |-> "int", v |-> 0]
    /\ response = << "y" >>
    /\ scan_ret = "True"

\* the characters that end or change the path of a URL when left raw
PathSensitive == { "?", "#", " ", "%" }

\* the character a percent code stands for
Unescape(code) ==
    CASE code = << "%", "3", "F" >> -> "?"
      [] code = << "%", "2", "3" >> -> "#"
      [] code = << "%", "2", "0" >> -> " "
      [] code = << "%", "2", "5" >> -> "%"
      [] code = << "%", "4", "0" >> -> "@"
      [] code = << "%", "2", "F" >> -> "/"
      [] OTHER -> "invalid"

\* percent-decoding of a URL path
RECURSIVE Unquote(_)
Unquote(s) ==
    IF s = << >> THEN << >>
    ELSE IF Head(s) = "%" /\ Len(s) >= 3
    THEN << Unescape(SubSeq(s, 1, 3)) >> \o Unquote(SubSeq(s, 4, Len(s)))
    ELSE << Head(s) >> \o Unquote(Tail(s))

IsSeparator(c) == c \in { "@", "/" }

\* the latest endpoint was queried: the URL built last ends in /latest
LatestQueried == url # << >> /\ url[Len(url)] = "/latest"

\* the part of that URL between the registry base and /latest
EncodedName == SubSeq(url, 2, Len(url) - 1)

\* C24: in the URL of the latest endpoint the package name stands between
\* the registry base and "/latest", encoded so that it decodes back to the
\* name, every '/' and '@' is kept as is (never escaped), no other
\* path-sensitive character is left raw, and a name without such characters
\* is unchanged.
C24_LatestUrlEncodesName ==
    LatestQueried
        => /\ url[1] = registry
           /\ Unquote(EncodedName) = package_name
           /\ SelectSeq(EncodedName, IsSeparator)
                = SelectSeq(package_name, IsSeparator)
           /\ \A i \in 1..Len(EncodedName) :
                  EncodedName[i] \notin { "?", "#", " " }
           /\ (\A i \in 1..Len(package_name) :
                   package_name[i] \notin PathSensitive)
                => EncodedName = package_name

\* C24 witness: the latest endpoint was asked about the name "l?", whose '?'
\* went into the URL as %3F.
C24_Witness ==
    /\ package_name = << "l", "?" >>
    /\ tarball_url = "latest"
    /\ url = << "https://registry.npmjs.org/", "l", "%", "3", "F", "/latest" >>

\* the URL the claim gives for name, version and registry base: for
\* @scope/name the scope without its '@', then name, "/-/" and
\* name-version.tgz; for a flat name the name in both places
ExpectedTarballUrl(name, ver, reg) ==
    IF ScopedName(name)
    THEN LET i == CHOOSE k \in 1..Len(name) :
                      name[k] = "/" /\ \A j \in 1..(k - 1) : name[j] # "/"
             scope == SubSeq(name, 2, i - 1)
             base == SubSeq(name, i + 1, Len(name))
         IN  << reg >> \o scope \o << "/" >> \o base \o << "/-/" >> \o base
                 \o << "-" >> \o << ver >> \o << ".tgz" >>
    ELSE << reg >> \o name \o << "/-/" >> \o name
             \o << "-" >> \o << ver >> \o << ".tgz" >>

C26_UnreadableResponseBlocks ==
    answered = "eof" => (scan_ret = "False" /\ calls = << >>)

\* C27 (as claimed): once download_package_and_get_hash has returned, no
\* archive made by npm pack remains in the working directory, whether the
\* fallback succeeded or failed.
C27_NoArchiveLeftInWorkingDirectory ==
    pc \notin ResolverPositions => ~cwd_archive

\* the line typed at the selection denotes an integer between 1 and the
\* number of entries listed
ChoiceInRange ==
    /\ ParseInt(manager_choice).ok
    /\ ParseInt(manager_choice).val \in 1..Len(candidates)

\* C28 (as claimed): at the interactive selection of the manager a response
\* that is not an integer between 1 and N (non-numeric, 0, negative, larger
\* than N) reports an invalid choice, and neither the scan nor a manager
\* command runs.
C28_OutOfRangeChoiceRejected ==
    (manager_choice # << "None" >> /\ ~ChoiceInRange)
        => (Printed("invalid_choice", 0) /\ scans = 0 /\ calls = << >>)

\* the available managers whose listing holds the package's name, letter case
\* ignored
ListingManagers ==
    { m \in { available_managers[i] : i \in 1..Len(available_managers) } :
        \E n \in packages[m] : Lower(n) = Lower(package_name) }

\* C29: update verifies and upgrades only through an available manager whose
\* listing holds the name, letter case ignored.  When no manager lists it the
\* command ends with neither scan nor upgrade; when exactly one lists it that
\* manager is used and no selection is asked; when several list it the
\* selected manager is one of them.
C29_UpdateOnlyThroughListingManager ==
    command = "update" =>
        /\ manager_name # "None" => manager_name \in ListingManagers
        /\ \A i \in 1..Len(calls) :
                /\ calls[i].manager \in ListingManagers
                /\ calls[i].op = "upgrade_package"
        /\ ListingManagers = { } =>
                (pc = "done" /\ scans = 0 /\ calls = << >>)
        /\ Cardinality(ListingManagers) = 1 =>
                /\ manager_name \in ListingManagers
                /\ manager_choice = << "None" >>
                /\ pc # "select"
        /\ Cardinality(ListingManagers) > 1 =>
                (manager_choice = << "None" >> <=> pc \in { "select", "crashed" })

\* C29 witness: an update of "lp", which both managers list as "Lp"; the
\* operator selected one of them and its upgrade command was invoked.
C29_Witness ==
    /\ command = "update"
    /\ package_name = << "l", "p" >>
    /\ Cardinality(ListingManagers) = 2
    /\ manager_choice # << "None" >>
    /\ manager_name \in ListingManagers
    /\ << "l", "p" >> \notin packages[manager_name]
    /\ Len(calls) = 1
    /\ calls[1].manager = manager_name

=============================================================================
